---- MODULE Spec2Model ----
(***************************************************************************)
(* Model of SoftLayer/CLI/cci.py: the `sl cci` sub-commands create,        *)
(* cancel, manage, detail and options.  One CLI invocation is argparse     *)
(* filling a namespace (the Parse* actions, from add_additional_args)      *)
(* followed by the command's execute() (the Exec* / exec_* actions).       *)
(*                                                                         *)
(* Python values:  a str that the code slices or sorts is a sequence of    *)
(* one-character strings; None is << >> and a present value v is <<v>>;    *)
(* an argparse namespace and a dict are records (functions on names).      *)
(* The API client and the confirmation prompts are outside the file: a     *)
(* call is appended to `calls`, a prompt to `prompts`, and their answers   *)
(* are inputs.                                                             *)
(***************************************************************************)
EXTENDS Integers, Sequences, FiniteSets, TLC

VARIABLES pc, args, calls, prompts, error, output, stdout, prev

vars == <<pc, args, calls, prompts, error, output, stdout, prev>>

(* ---------------- bounds ---------------- *)
MaxLen == 4
MaxOS == 3
MaxNics == 2
MaxFilters == 1

(* ---------------- Python values ---------------- *)
None == << >>
Some(v) == <<v>>

\* all sequences over S of length 0..n
SeqsUpTo(S, n) == UNION {[1..k -> S] : k \in 0..n}

\* d[k] = v on a dict
Put(d, k, v) == [x \in (DOMAIN d) \cup {k} |-> IF x = k THEN v ELSE d[x]]

\* characters in ASCII order ('-' < digits < upper case < '_' < lower case)
CharOrder == <<"-", "0", "1", "2", "3", "4", "5", "6", "7", "8", "9",
               "B", "C", "E", "G", "N", "O", "S", "T", "U", "_",
               "a", "b", "c", "g", "r">>

Ord(c) == CHOOSE i \in 1..Len(CharOrder) : CharOrder[i] = c

Digits == {"0", "1", "2", "3", "4", "5", "6", "7", "8", "9"}

DigitVal(c) == Ord(c) - Ord("0")

DigitChar(d) == CharOrder[Ord("0") + d]

IsDigits(s) == Len(s) >= 1 /\ \A i \in 1..Len(s) : s[i] \in Digits

RECURSIVE DigitsVal(_)
DigitsVal(s) ==
  IF s = << >> THEN 0
  ELSE DigitsVal(SubSeq(s, 1, Len(s) - 1)) * 10 + DigitVal(s[Len(s)])

\* int(s) succeeds: an optional sign followed by at least one digit
ValidInt(s) ==
  IF Len(s) >= 1 /\ s[1] \in {"-", "+"} THEN IsDigits(Tail(s)) ELSE IsDigits(s)

\* int(s) for a string on which it succeeds
int(s) ==
  IF s[1] = "-" THEN 0 - DigitsVal(Tail(s))
  ELSE IF s[1] = "+" THEN DigitsVal(Tail(s))
  ELSE DigitsVal(s)

\* str(n) of a non-negative int
RECURSIVE str(_)
str(n) ==
  IF n < 10 THEN <<DigitChar(n)>>
  ELSE str(n \div 10) \o <<DigitChar(n % 10)>>

\* s[0:k]
SliceTo(s, k) ==
  LET k1 == IF k < 0 THEN k + Len(s) ELSE k
      k2 == IF k1 < 0 THEN 0 ELSE IF k1 > Len(s) THEN Len(s) ELSE k1
  IN  SubSeq(s, 1, k2)

\* s.find(c): 0-based index of the first c, or -1
find(s, c) ==
  IF \E i \in 1..Len(s) : s[i] = c
  THEN (CHOOSE i \in 1..Len(s) : s[i] = c /\ \A j \in 1..(i - 1) : s[j] # c) - 1
  ELSE -1

\* a < b on str (lexicographic by character code)
StrLess(a, b) ==
  \/ Len(a) < Len(b) /\ SubSeq(b, 1, Len(a)) = a
  \/ \E i \in 1..Len(a) :
       /\ i <= Len(b)
       /\ SubSeq(a, 1, i - 1) = SubSeq(b, 1, i - 1)
       /\ Ord(a[i]) < Ord(b[i])

\* insert x into the sorted list l after every element not greater than x
RECURSIVE Insert(_, _)
Insert(l, x) ==
  IF l = << >> THEN <<x>>
  ELSE IF StrLess(x, Head(l)) THEN <<x>> \o l
  ELSE <<Head(l)>> \o Insert(Tail(l), x)

\* sorted(l) on a list of str
RECURSIVE sorted(_)
sorted(l) ==
  IF l = << >> THEN << >>
  ELSE Insert(sorted(SubSeq(l, 1, Len(l) - 1)), l[Len(l)])

\* sorted(S) on a set of str
RECURSIVE sortedSet(_)
sortedSet(S) ==
  IF S = {} THEN << >>
  ELSE LET m == CHOOSE x \in S : \A y \in S : ~StrLess(y, x)
       IN  <<m>> \o sortedSet(S \ {m})

\* sep.join(l)
RECURSIVE join(_, _)
join(sep, l) ==
  IF l = << >> THEN << >>
  ELSE IF Len(l) = 1 THEN l[1]
  ELSE l[1] \o <<sep>> \o join(sep, Tail(l))

\* [str(x) for x in l]
strs(l) == [i \in 1..Len(l) |-> str(l[i])]

Range(l) == {l[i] : i \in 1..Len(l)}

(* ---------------- the state after construction ---------------- *)
Idle == [action |-> "none"]

Init ==
  /\ pc = "idle"
  /\ args = Idle
  /\ calls = << >>
  /\ prompts = << >>
  /\ error = "none"
  /\ output = None
  /\ stdout = << >>
  /\ prev = None

\* argparse hands the namespace a to execute()
Parsed(a) ==
  /\ pc = "idle"
  /\ pc' = "parsed"
  /\ args' = a
  /\ UNCHANGED <<calls, prompts, error, output, stdout, prev>>

\* execute() ends: the calls made, the prompts shown, the exception raised
\* (or "none"), the value returned and the lines printed
Finish(c, p, e, o, s) ==
  /\ pc' = "done"
  /\ calls' = c
  /\ prompts' = p
  /\ error' = e
  /\ output' = o
  /\ stdout' = s
  /\ UNCHANGED <<args, prev>>

(* ---------------- create ---------------- *)
\* --memory strings of the examples of the documentation, and malformed ones
MemorySamples ==
  { <<"2">>, <<"2", "0", "4", "8">>, <<"2", "G">>, <<"4", "G">>, <<"1", "T">>,
    <<"1", "r">>,
    <<"a", "b", "c", "G">>, <<"G">>, << >> }

\* --os / --image: a required mutually exclusive group of str options
InstallArgs ==
  { [os |-> Some(v), image |-> None] : v \in {"", "UBUNTU_LATEST"} } \cup
  { [os |-> None, image |-> Some(v)] : v \in {"", "GUID"} }

\* --hourly / --monthly: a required mutually exclusive group of store_true flags
BillableArgs ==
  { [hourly |-> TRUE, monthly |-> FALSE], [hourly |-> FALSE, monthly |-> TRUE] }

\* --userdata / --userfile: an optional mutually exclusive group; the file is
\* represented by what read() returns
UserArgs ==
  { [userdata |-> None, userfile |-> None] } \cup
  { [userdata |-> Some(v), userfile |-> None] : v \in {"", "meta"} } \cup
  { [userdata |-> None, userfile |-> Some(v)] : v \in {"", "contents"} }

CreateArgs(mem, inst, bill, dc, priv, user, t, r) ==
  [ action |-> "create", hostname |-> "server1", domain |-> "example.com",
    cpu |-> 2, memory |-> mem, os |-> inst.os, image |-> inst.image,
    hourly |-> bill.hourly, monthly |-> bill.monthly, datacenter |-> dc,
    private |-> priv, userdata |-> user.userdata, userfile |-> user.userfile,
    test |-> t, really |-> r ]

ParseCreate ==
  \E mem \in MemorySamples, inst \in InstallArgs, bill \in BillableArgs,
     dc \in {"", "dal05"}, priv \in BOOLEAN, user \in UserArgs,
     t \in BOOLEAN, r \in BOOLEAN :
    Parsed(CreateArgs(mem, inst, bill, dc, priv, user, t, r))

\* `if v:` on an optional str
Truthy(o) == o # None /\ o[1] # ""

\* A Python int has no width.  The values of `memory` exceed 32 bits, so
\* `memory` is kept as <<hi, lo>>, standing for hi * Limb + lo with
\* 0 <= lo < Limb.
Limb == 1024 * 1024

PyInt(n) == <<n \div Limb, n % Limb>>

\* memory * 1024
Times1024(b) ==
  LET lo == b[2] * 1024
  IN  <<b[1] * 1024 + (lo \div Limb), lo % Limb>>

\* variant: the threshold test is off by one
BareMemoryInclusive(n) ==
  IF n <= 1024 THEN Times1024(PyInt(n)) ELSE PyInt(n)

BareMemory(n) == IF n < 1024 THEN Times1024(PyInt(n)) ELSE PyInt(n)

UnitMemory(unit, n) ==
  LET m1 == IF unit \in {"G", "g"} THEN Times1024(PyInt(n)) ELSE PyInt(n)
  IN  IF unit \in {"T", "r"} THEN Times1024(Times1024(m1)) ELSE m1

\* the except ValueError branch: the exception of args.memory[-1] or of
\* int(args.memory[0:-1]) leaves execute()
SuffixMemory(m) ==
  IF Len(m) = 0 THEN [error |-> "IndexError", memory |-> PyInt(0)]
  ELSE LET unit == m[Len(m)]
           rest == SliceTo(m, -1)
       IN  IF ValidInt(rest)
           THEN [error |-> "none", memory |-> UnitMemory(unit, int(rest))]
           ELSE [error |-> "ValueError", memory |-> PyInt(0)]

\* the try/except that computes `memory`
Memory(m) ==
  IF ValidInt(m) THEN [error |-> "none", memory |-> BareMemory(int(m))]
  ELSE SuffixMemory(m)

BaseData(a) ==
  [ hourly |-> a.hourly, cpus |-> a.cpu, domain |-> a.domain,
    hostname |-> a.hostname, private |-> a.private, local_disk |-> TRUE ]

WithMonthly(a, d) == IF a.monthly THEN Put(d, "hourly", FALSE) ELSE d

WithOs(a, d) == IF Truthy(a.os) THEN Put(d, "os_code", a.os[1]) ELSE d

WithImage(a, d) == IF Truthy(a.image) THEN Put(d, "image_id", a.image[1]) ELSE d

\* variant: the datacenter is left out of the dry run
WithDatacenterLiveOnly(a, d) ==
  IF a.datacenter # "" /\ ~a.test THEN Put(d, "datacenter", a.datacenter) ELSE d

WithDatacenter(a, d) ==
  IF a.datacenter # "" THEN Put(d, "datacenter", a.datacenter) ELSE d

WithUserdata(a, d) ==
  IF Truthy(a.userdata) THEN Put(d, "userdata", a.userdata[1])
  ELSE IF a.userfile # None THEN Put(d, "userdata", a.userfile[1])
  ELSE d

\* the dict `data` when the if-chain is reached
CreateData(a, memory) ==
  WithUserdata(a, WithDatacenter(a, WithImage(a, WithOs(a,
    WithMonthly(a, Put(BaseData(a), "memory", memory))))))

\* variant: the order is placed whatever the answer
GoAheadAlways(really, answer) == TRUE

\* args.really or confirm(...)
GoAhead(really, answer) == really \/ answer

Call(method, data) == [method |-> method, data |-> data]

Result(method) == Some([from |-> method])

Asked(prompt, answer) == [prompt |-> prompt, answer |-> answer]

Outcome(c, p, e, o, s) ==
  [calls |-> c, prompts |-> p, error |-> e, output |-> o, stdout |-> s]

\* CreateCCI.execute on namespace a when confirm() would answer `answer`
CreateRun(a, answer) ==
  LET m == Memory(a.memory)
      data == CreateData(a, m.memory)
      asked == IF a.really THEN << >> ELSE <<Asked("confirm", answer)>>
  IN  IF m.error # "none" THEN Outcome(<< >>, << >>, m.error, None, << >>)
      ELSE IF a.test
      THEN Outcome(<<Call("verify_create_instance", data)>>, << >>, "none",
                   Result("verify_create_instance"), <<"Test: Success!">>)
      ELSE IF GoAhead(a.really, answer)
      THEN Outcome(<<Call("create_instance", data)>>, asked, "none",
                   Result("create_instance"), <<"Success!">>)
      ELSE Outcome(<< >>, asked, "UnboundLocalError", None, << >>)

ExecCreate ==
  /\ pc = "parsed"
  /\ args.action = "create"
  /\ \E answer \in BOOLEAN :
       LET r == CreateRun(args, answer)
       IN  Finish(r.calls, r.prompts, r.error, r.output, r.stdout)

\* the same create command line is issued again with the --test and --really
\* flags of the user's choice (a quote, then the order); prev keeps the run
\* that just ended
RerunCreate ==
  /\ pc = "done"
  /\ args.action = "create"
  /\ \E t \in BOOLEAN, r \in BOOLEAN :
       args' = [args EXCEPT !.test = t, !.really = r]
  /\ pc' = "parsed"
  /\ prev' = Some([args |-> args, calls |-> calls])
  /\ calls' = << >>
  /\ prompts' = << >>
  /\ error' = "none"
  /\ output' = None
  /\ stdout' = << >>

(* ---------------- cancel ---------------- *)
InstanceIds == {"1001", "1002"}

ParseCancel ==
  \E id \in InstanceIds, r \in BOOLEAN :
    Parsed([action |-> "cancel", id |-> id, really |-> r])

ExecCancel ==
  /\ pc = "parsed"
  /\ args.action = "cancel"
  /\ \E answer \in BOOLEAN :
       LET asked == IF args.really THEN << >>
                    ELSE <<Asked("no_going_back", answer)>>
       IN  IF args.really \/ answer
           THEN Finish(<<[method |-> "cancel_instance", id |-> args.id]>>,
                       asked, "none", None, << >>)
           ELSE Finish(<< >>, asked, "none", None, <<"Aborted.">>)

(* ---------------- manage ---------------- *)
\* the namespace of each sub-parser holds `instance`, `func` and only the
\* flags that sub-parser declares
ManageArgs(sub, func, instance, flags) ==
  [action |-> "manage", manage |-> sub, func |-> func, instance |-> instance]
    @@ flags

ParseManage ==
  \E instance \in InstanceIds :
    \/ \E soft \in BOOLEAN :
         Parsed(ManageArgs("poweroff", "exec_shutdown", instance,
                           [soft |-> soft]))
    \/ \E g \in {<<FALSE, FALSE>>, <<TRUE, FALSE>>, <<FALSE, TRUE>>} :
         Parsed(ManageArgs("reboot", "exec_reboot", instance,
                           [cycle |-> g[1], soft |-> g[2]]))
    \/ \E sub \in {"poweron", "pause", "resume"} :
         Parsed(ManageArgs(sub, "exec_" \o sub, instance, << >>))

VGCall(method, id) == [service |-> "Virtual_Guest", method |-> method, id |-> id]

\* one Virtual_Guest call whose result is printed
CallAndPrint(method) ==
  Finish(<<VGCall(method, args.instance)>>, << >>, "none", None,
         <<[from |-> method]>>)

\* reading a flag the namespace does not hold raises AttributeError
AttributeError == Finish(<< >>, << >>, "AttributeError", None, << >>)

Dispatch(func) == pc = "parsed" /\ args.action = "manage" /\ args.func = func

exec_shutdown ==
  /\ Dispatch("exec_shutdown")
  /\ IF "soft" \notin DOMAIN args THEN AttributeError
     ELSE IF args.soft THEN CallAndPrint("powerOffSoft")
     ELSE IF "cycle" \notin DOMAIN args THEN AttributeError
     ELSE IF args.cycle THEN CallAndPrint("powerCycle")
     ELSE CallAndPrint("powerOff")

exec_poweron == Dispatch("exec_poweron") /\ CallAndPrint("powerOn")

exec_pause == Dispatch("exec_pause") /\ CallAndPrint("pause")

exec_resume == Dispatch("exec_resume") /\ CallAndPrint("resume")

exec_reboot ==
  /\ Dispatch("exec_reboot")
  /\ IF "cycle" \notin DOMAIN args THEN AttributeError
     ELSE IF args.cycle THEN CallAndPrint("rebootHard")
     ELSE IF "soft" \notin DOMAIN args THEN AttributeError
     ELSE IF args.soft THEN CallAndPrint("rebootSoft")
     ELSE CallAndPrint("rebootDefault")

(* ---------------- detail ---------------- *)
\* --id / --name / --public-ip: a required mutually exclusive group
SelectorArgs ==
  { [id |-> Some(v), name |-> None, public_ip |-> None] : v \in InstanceIds } \cup
  { [id |-> None, name |-> Some("server1.example.com"), public_ip |-> None] } \cup
  { [id |-> None, name |-> None, public_ip |-> Some("198.51.100.7")] }

ParseDetail ==
  \E sel \in SelectorArgs, passwords \in BOOLEAN, price \in BOOLEAN :
    Parsed([action |-> "detail", id |-> sel.id, name |-> sel.name,
            public_ip |-> sel.public_ip, passwords |-> passwords,
            price |-> price])

\* records the API answers get_instance with
Guests ==
  { [ id |-> "1001", fullyQualifiedDomainName |-> "server1.example.com",
      status |-> "Active", powerState |-> "Running", datacenter |-> "dal05",
      maxCpu |-> 2, maxMemory |-> 2048, primaryIpAddress |-> "198.51.100.7",
      primaryBackendIpAddress |-> "10.0.0.7", os |-> "Ubuntu",
      recurringFee |-> "0.10",
      passwords |-> <<[username |-> "root", password |-> "pw1"]>> ],
    [ id |-> "1002", fullyQualifiedDomainName |-> "server2.example.com",
      status |-> "Active", powerState |-> "Halted", datacenter |-> "sng01",
      maxCpu |-> 4, maxMemory |-> 4096, primaryIpAddress |-> "198.51.100.8",
      primaryBackendIpAddress |-> "10.0.0.8", os |-> "CentOS",
      recurringFee |-> "0.20",
      passwords |-> <<[username |-> "root", password |-> "pw2"],
                      [username |-> "admin", password |-> "pw3"]>> ] }

\* "%sG" % (int(s) / 1024), the number and its suffix
format_byte_size(s) == <<s \div 1024, "G">>

UserStr(item) == <<item.username, " ", item.password>>

\* the rows of the detail table for the record `result`
DetailRows(a, result) ==
  << <<"id", result.id>>,
     <<"hostname", result.fullyQualifiedDomainName>>,
     <<"status", result.status>>,
     <<"state", result.powerState>>,
     <<"datacenter", result.datacenter>>,
     <<"cores", result.maxCpu>>,
     <<"memory", format_byte_size(result.maxMemory)>>,
     <<"public_ip", result.primaryIpAddress>>,
     <<"private_ip", result.primaryBackendIpAddress>>,
     <<"os", result.os>> >>
  \o (IF a.price THEN << <<"price rate", result.recurringFee>> >> ELSE << >>)
  \o (IF a.passwords
      THEN << <<"users", join("\n", [i \in 1..Len(result.passwords) |-> UserStr(result.passwords[i])])>> >>
      ELSE << >>)

ExecDetail ==
  /\ pc = "parsed"
  /\ args.action = "detail"
  /\ \E result \in Guests :
       Finish(<<[method |-> "get_instance", key |-> args.id]>>, << >>, "none",
              Some(DetailRows(args, result)), << >>)

(* ---------------- options ---------------- *)
FilterNames == {"all", "datacenter", "cpu", "nic", "disk", "os", "memory"}

\* each flag appends its name to args.filters, in command-line order
ParseOptions ==
  \E filters \in SeqsUpTo(FilterNames, MaxFilters) :
    Parsed([action |-> "options", filters |-> filters])

\* operatingSystemReferenceCode values the catalog draws from
OSCodes ==
  { <<"U", "B", "U", "N", "T", "U", "_", "6", "4">>,
    <<"U", "B", "U", "N", "T", "U", "_", "3", "2">>,
    <<"C", "E", "N", "T", "O", "S", "_", "6", "4">>,
    <<"C", "E", "N", "T", "_", "6">> }

\* maxSpeed values the catalog draws from
Speeds == {10, 100, 1000, 25}

Processors ==
  { << [startCpus |-> 1, dedicated |-> FALSE], [startCpus |-> 2, dedicated |-> FALSE],
       [startCpus |-> 1, dedicated |-> TRUE] >>,
    << [startCpus |-> 4, dedicated |-> TRUE], [startCpus |-> 2, dedicated |-> FALSE] >> }

BlockDevices ==
  { << [local |-> TRUE, device |-> <<"0">>, capacity |-> 25],
       [local |-> TRUE, device |-> <<"0">>, capacity |-> 100],
       [local |-> FALSE, device |-> <<"0">>, capacity |-> 25] >>,
    << [local |-> FALSE, device |-> <<"2">>, capacity |-> 100],
       [local |-> TRUE, device |-> <<"2">>, capacity |-> 25],
       [local |-> FALSE, device |-> <<"0">>, capacity |-> 100],
       [local |-> FALSE, device |-> <<"2">>, capacity |-> 10] >> }

\* answers of get_create_options(): per category, the field of each template
\* that execute() reads, in catalog order
Catalogs ==
  { [ datacenters |-> << <<"d", "a", "l">>, <<"s", "n", "g">> >>,
      processors |-> p,
      memory |-> <<1024, 2048, 4096>>,
      operatingSystems |-> os,
      blockDevices |-> b,
      networkComponents |-> n ] :
    p \in Processors, os \in SeqsUpTo(OSCodes, MaxOS), b \in BlockDevices,
    n \in SeqsUpTo(Speeds, MaxNics) }

Row(name, value) == <<name, value>>

Shown(filters, show_all, f) == f \in Range(filters) \/ show_all

StartCpus(x) == str(x.startCpus)

cpus_row(c, name) ==
  Row(<<"cpus", name>>, join(",", [i \in 1..Len(c) |-> StartCpus(c[i])]))

IsDedicated(x) == x.dedicated

IsStandard(x) == ~x.dedicated

\* o[0:o.find('_')]
OsPrefix(o) == SliceTo(o, find(o, "_"))

\* the `os (s)` row: the codes that start with s
os_row(os, s) ==
  LET StartsWith(x) == SliceTo(x, Len(s)) = s
  IN  Row(<<"os", s>>, join("\n", sorted(SelectSeq(os, StartsWith))))

os_rows(codes) ==
  LET os == sorted(codes)
      os_summary == {OsPrefix(os[i]) : i \in 1..Len(os)}
      names == sortedSet(os_summary)
  IN  [i \in 1..Len(names) |-> os_row(os, names[i])]

IsLocal(x) == x.local

IsSan(x) == ~x.local

block_rows(blocks, name) ==
  LET keys == sortedSet({blocks[i].device : i \in 1..Len(blocks)})
      simple(bid) ==
        LET OnSlot(x) == x.device = bid
            on == SelectSeq(blocks, OnSlot)
        IN  [i \in 1..Len(on) |-> str(on[i].capacity)]
  IN  [i \in 1..Len(keys) |->
         Row(<<"disk", name, keys[i]>>, join(",", simple(keys[i])))]

nic_row(components) == Row(<<"nic">>, join(",", sorted(strs(components))))

\* the rows of the options table
OptionsRows(filters, result) ==
  LET show_all == Len(filters) = 0 \/ "all" \in Range(filters)
      On(f) == Shown(filters, show_all, f)
  IN  (IF On("datacenter")
       THEN <<Row(<<"datacenter">>, join(",", result.datacenters))>> ELSE << >>)
   \o (IF On("cpu")
       THEN << cpus_row(SelectSeq(result.processors, IsDedicated), "private"),
               cpus_row(SelectSeq(result.processors, IsStandard), "standard") >>
       ELSE << >>)
   \o (IF On("memory")
       THEN <<Row(<<"memory">>, join(",", strs(result.memory)))>> ELSE << >>)
   \o (IF On("os") THEN os_rows(result.operatingSystems) ELSE << >>)
   \o (IF On("disk")
       THEN block_rows(SelectSeq(result.blockDevices, IsLocal), "local")
            \o block_rows(SelectSeq(result.blockDevices, IsSan), "san")
       ELSE << >>)
   \o (IF On("nic") THEN <<nic_row(result.networkComponents)>> ELSE << >>)

\* the call is kept with what the API answered, next to the table made of it
ExecOptions ==
  /\ pc = "parsed"
  /\ args.action = "options"
  /\ \E result \in Catalogs :
       Finish(<<[method |-> "get_create_options", result |-> result]>>, << >>,
              "none", Some(OptionsRows(args.filters, result)), << >>)

(* ---------------- specifications ---------------- *)
Next ==
  \/ ParseCreate \/ ExecCreate \/ RerunCreate
  \/ ParseCancel \/ ExecCancel
  \/ ParseManage
  \/ exec_shutdown \/ exec_reboot \/ exec_poweron \/ exec_pause \/ exec_resume
  \/ ParseDetail \/ ExecDetail

\* the command line interface: create, cancel, manage and detail
Spec == Init /\ [][Next]_vars

\* characters the --memory strings of SpecMemory are made of
MemoryChars == {"0", "1", "2", "4", "8", "G", "g", "T", "r", "-"}

\* create has been parsed with any --memory string of at most MaxLen characters
InitMemory ==
  /\ pc = "parsed"
  /\ args \in { CreateArgs(mem, [os |-> Some("UBUNTU_LATEST"), image |-> None],
                           [hourly |-> TRUE, monthly |-> FALSE], "", FALSE,
                           [userdata |-> None, userfile |-> None], t, r) :
                mem \in SeqsUpTo(MemoryChars, MaxLen),
                t \in BOOLEAN, r \in BOOLEAN }
  /\ calls = << >>
  /\ prompts = << >>
  /\ error = "none"
  /\ output = None
  /\ stdout = << >>
  /\ prev = None

NextMemory == ExecCreate

\* the memory normalisation of create over all short --memory strings
SpecMemory == InitMemory /\ [][NextMemory]_vars

NextOptions == ParseOptions \/ ExecOptions

\* the options command over bounded catalogs
SpecOptions == Init /\ [][NextOptions]_vars

(* ---------------- properties ---------------- *)
Done(action) == pc = "done" /\ args.action = action

Methods == {calls[i].method : i \in 1..Len(calls)}

\* C1: create calls create_instance only when --really was given or the
\* confirmation was answered yes, and never with --test (then only
\* verify_create_instance); cancel calls cancel_instance only when --really
\* was given or no_going_back was answered yes.
DestructiveNeedsConsent ==
  /\ Done("create") =>
       /\ "create_instance" \in Methods =>
            /\ ~args.test
            /\ args.really \/ Asked("confirm", TRUE) \in Range(prompts)
       /\ args.test => Methods \subseteq {"verify_create_instance"}
  /\ Done("cancel") =>
       ("cancel_instance" \in Methods =>
          args.really \/ Asked("no_going_back", TRUE) \in Range(prompts))

\* C1 witness: an order placed without --really after the prompt was answered yes
ConsentGivenAtPrompt ==
  /\ Done("create")
  /\ ~args.test /\ ~args.really
  /\ Methods = {"create_instance"}
  /\ prompts = <<Asked("confirm", TRUE)>>

\* the call the documentation gives for each accepted manage command line
ManageMethod(a) ==
  CASE a.manage = "poweroff" -> IF a.soft THEN "powerOffSoft" ELSE "powerOff"
    [] a.manage = "reboot" -> IF a.cycle THEN "rebootHard"
                              ELSE IF a.soft THEN "rebootSoft"
                              ELSE "rebootDefault"
    [] a.manage = "poweron" -> "powerOn"
    [] a.manage = "pause" -> "pause"
    [] a.manage = "resume" -> "resume"

\* C2: every accepted manage command line makes exactly one Virtual_Guest
\* call, the one of its action and modifier, carrying the instance id.
ManageMakesOneCall ==
  Done("manage") => calls = <<VGCall(ManageMethod(args), args.instance)>>

\* the value of the selector that was supplied to detail
SuppliedSelector(a) ==
  IF a.id # None THEN a.id ELSE IF a.name # None THEN a.name ELSE a.public_ip

\* C3: detail looks the instance up by the value of the selector supplied
\* (--id, --name or --public-ip), never by an absent value.
DetailKeyedBySelector ==
  Done("detail") =>
    /\ Len(calls) = 1
    /\ calls[1].key # None
    /\ calls[1].key = SuppliedSelector(args)

\* a count k of mebibytes, and n * 1024 * 1024 mebibytes, as the payload
\* holds them
Mebibytes(k) == <<k \div 1048576, k % 1048576>>

Tebibytes(n) == <<n, 0>>

\* C4: the memory sent by create is the mebibyte count of the policy: a bare
\* integer n < 1024 gives n*1024, a bare integer n >= 1024 gives n, n followed
\* by G or g gives n*1024, n followed by T or r gives n*1024*1024; so "2" and
\* "2048" give 2048, "4G" gives 4096 and "1T" gives 1048576.
MemoryIsNormalized ==
  Done("create") =>
    LET m == args.memory
        rest == SubSeq(m, 1, Len(m) - 1)
        WellFormed == \/ ValidInt(m)
                      \/ /\ Len(m) >= 1
                         /\ m[Len(m)] \in {"G", "g", "T", "r"}
                         /\ ValidInt(rest)
        Sent(k) == \A i \in 1..Len(calls) : calls[i].data.memory = k
    IN  /\ WellFormed => error \notin {"ValueError", "IndexError"}
        /\ ValidInt(m) /\ int(m) < 1024 => Sent(Mebibytes(int(m) * 1024))
        /\ ValidInt(m) /\ int(m) >= 1024 => Sent(Mebibytes(int(m)))
        /\ ~ValidInt(m) /\ Len(m) >= 1 /\ ValidInt(rest) =>
             /\ m[Len(m)] \in {"G", "g"} => Sent(Mebibytes(int(rest) * 1024))
             /\ m[Len(m)] \in {"T", "r"} => Sent(Tebibytes(int(rest)))
        /\ m = <<"2">> => Sent(Mebibytes(2048))
        /\ m = <<"2", "0", "4", "8">> => Sent(Mebibytes(2048))
        /\ m = <<"1", "0", "2", "4">> => Sent(Mebibytes(1024))
        /\ m = <<"4", "G">> => Sent(Mebibytes(4096))
        /\ m = <<"1", "T">> => Sent(Mebibytes(1048576))

\* C4 witness: --memory 4G went out as 4096
FourGibSent ==
  /\ Done("create")
  /\ args.memory = <<"4", "G">>
  /\ Len(calls) = 1
  /\ calls[1].data.memory = Mebibytes(4096)

\* C5: a --memory string that is not an integer and whose remainder after
\* stripping the last character is not an integer makes create fail with the
\* invalid-integer error (the ValueError of int(), InvalidMemorySpec in the
\* documentation), before any prompt and before any API call.
MalformedMemoryRejected ==
  Done("create") /\ ~ValidInt(args.memory)
                 /\ ~ValidInt(SliceTo(args.memory, -1)) =>
    /\ error = "ValueError"
    /\ prompts = << >>
    /\ calls = << >>

\* C6: two runs of create whose arguments differ only in --test send the same
\* payload, the dry run to verify_create_instance, the live run to
\* create_instance.
DryRunSendsSamePayload ==
  ( /\ Done("create")
    /\ prev # None
    /\ prev[1].args.test # args.test
    /\ [prev[1].args EXCEPT !.test = FALSE] = [args EXCEPT !.test = FALSE]
    /\ calls # << >>
    /\ prev[1].calls # << >> ) =>
  /\ Len(calls) = 1
  /\ Len(prev[1].calls) = 1
  /\ calls[1].data = prev[1].calls[1].data
  /\ {calls[1].method, prev[1].calls[1].method}
       = {"verify_create_instance", "create_instance"}

\* C6 witness: a monthly 2G order for dal05 confirmed at the prompt after its
\* dry run
LiveRunAfterDryRun ==
  /\ Done("create")
  /\ prev # None
  /\ prev[1].args = [args EXCEPT !.test = TRUE]
  /\ ~args.test /\ ~args.really /\ args.monthly /\ args.datacenter = "dal05"
  /\ args.memory = <<"2", "G">>
  /\ Methods = {"create_instance"}
  /\ calls[1].data.memory = Mebibytes(2048)
  /\ prev[1].calls # << >>

\* C7: every payload create sends holds exactly one of os_code and image_id,
\* and its hourly is true exactly with --hourly, false exactly with --monthly.
PayloadInstallAndBilling ==
  Done("create") =>
    \A i \in 1..Len(calls) :
      LET d == calls[i].data
      IN  /\ ("os_code" \in DOMAIN d) # ("image_id" \in DOMAIN d)
          /\ d.hourly = args.hourly
          /\ d.hourly = ~args.monthly

\* the rows of the table whose name starts with `kind`
RowsOf(kind) == SelectSeq(output[1], LAMBDA r : r[1][1] = kind)

Catalog == calls[1].result

OptionShown(f) ==
  /\ Done("options")
  /\ f \in Range(args.filters) \/ "all" \in Range(args.filters)
       \/ args.filters = << >>

\* the family of a code: what precedes its first underscore
Family(o) == SubSeq(o, 1, find(o, "_"))

FamilyRow(codes, f) ==
  LET InFamily(o) == Family(o) = f
  IN  Row(<<"os", f>>, join("\n", sorted(SelectSeq(codes, InFamily))))

\* C8: the os rows are one row per family, in sorted family order, each
\* listing exactly the codes of that family in sorted order.
OsRowsByFamily ==
  OptionShown("os") =>
    LET codes == Catalog.operatingSystems
        families == sortedSet({Family(codes[i]) : i \in 1..Len(codes)})
    IN  RowsOf("os") = [i \in 1..Len(families) |-> FamilyRow(codes, families[i])]

\* l in ascending numeric order
RECURSIVE Ascending(_)
Ascending(l) ==
  IF l = << >> THEN << >>
  ELSE LET m == CHOOSE i \in 1..Len(l) : \A j \in 1..Len(l) : l[i] <= l[j]
       IN  <<l[m]>> \o Ascending([k \in 1..(Len(l) - 1) |->
                                    IF k < m THEN l[k] ELSE l[k + 1]])

\* C9: the nic row lists every max speed of the catalog, comma-joined in
\* ascending numeric order.
NicRowNumeric ==
  OptionShown("nic") =>
    RowsOf("nic") =
      <<Row(<<"nic">>, join(",", strs(Ascending(Catalog.networkComponents))))>>

\* C10: create with valid arguments either made exactly one of the two calls
\* and returns its result, or (no --test, no --really, prompt answered no)
\* made no call and ends without an exception.
CreateEndsDefined ==
  Done("create") /\ Memory(args.memory).error = "none" =>
    \/ /\ Len(calls) = 1
       /\ calls[1].method \in {"verify_create_instance", "create_instance"}
       /\ output = Result(calls[1].method)
       /\ error = "none"
    \/ /\ ~args.test /\ ~args.really
       /\ prompts = <<Asked("confirm", FALSE)>>
       /\ calls = << >>
       /\ error = "none"

====
